---- MODULE Spec2Model ----
(***************************************************************************)
(* The data cleaning and load pipeline of FoodManagementSystem.py as a     *)
(* state machine.  One run of the script is one behaviour: the four CSV   *)
(* files are read, normalised, filtered stage by stage (each stage may    *)
(* write a reject artifact), saved as cleaned CSVs and loaded into a      *)
(* SQLite store.                                                           *)
(*                                                                         *)
(* Text cells are sequences of one-character strings, so that clean_text  *)
(* is computed character by character.  Numeric cells are records         *)
(* [nan, w, f]: nan marks pandas' NaN, w is the whole part and f the      *)
(* first decimal digit of a float.                                         *)
(***************************************************************************)
EXTENDS Integers, Sequences, FiniteSets, TLC

VARIABLES
    pc,                  \* position of the script
    raw,                 \* the four input files (never written)
    providers, receivers, food, claims,   \* the four dataframes
    valid_provider_ids, valid_receiver_ids, valid_food_ids,
    rejects,             \* files of REJECTS_DIR: artifact name -> rows (<<>>: no file)
    cleaned,             \* files *_clean.csv of OUTPUT_DIR
    db,                  \* the file DB_PATH: the committed tables
    prev,                \* the run before this one: its input and what it left
    conn_cache,          \* app.py: the connection get_conn has cached (0: none)
    txn,                 \* app.py: the open write transaction of the store
    sessions,            \* app.py: the dashboard sessions, each in one operation
    query                \* app.py: the dashboard query issued last

\* the state of the dashboard
app_vars == <<conn_cache, txn, sessions, query>>

vars == <<pc, raw, providers, receivers, food, claims,
          valid_provider_ids, valid_receiver_ids, valid_food_ids,
          rejects, cleaned, db, prev, app_vars>>

-----------------------------------------------------------------------------
(* Bounds of the model                                                     *)

MaxProviders == 2
MaxReceivers == 2
MaxFood == 2
MaxClaims == 2
MaxRuns == 2         \* runs of the script on one output directory
NumSessions == 2     \* dashboard sessions of the Streamlit process
MaxNewRows == 1      \* identifiers the dashboard adds to those the script loaded, per table

-----------------------------------------------------------------------------
(* Sequences                                                               *)

SeqUpTo(S, n) == UNION {[1..k -> S] : k \in 0..n}

Range(s) == {s[i] : i \in 1..Len(s)}

\* df[column] as a set of the values of a column
Column(df, col) == {df[i][col] : i \in 1..Len(df)}

-----------------------------------------------------------------------------
(* Text: str.strip, str.replace(r"\s+", " "), str.title                    *)

Lowers == <<"a","b","c","d","e","f","g","h","i","j","k","l","m",
            "n","o","p","q","r","s","t","u","v","w","x","y","z">>
Uppers == <<"A","B","C","D","E","F","G","H","I","J","K","L","M",
            "N","O","P","Q","R","S","T","U","V","W","X","Y","Z">>

IsSpace(c) == c \in {" ", "\t"}
IsLower(c) == \E i \in 1..Len(Lowers) : Lowers[i] = c
IsUpper(c) == \E i \in 1..Len(Uppers) : Uppers[i] = c
IsCased(c) == IsLower(c) \/ IsUpper(c)

ToUpper(c) == IF IsLower(c) THEN Uppers[CHOOSE i \in 1..Len(Lowers) : Lowers[i] = c] ELSE c
ToLower(c) == IF IsUpper(c) THEN Lowers[CHOOSE i \in 1..Len(Uppers) : Uppers[i] = c] ELSE c

RECURSIVE LStrip(_)
LStrip(s) == IF s # <<>> /\ IsSpace(Head(s)) THEN LStrip(Tail(s)) ELSE s

RECURSIVE RStrip(_)
RStrip(s) == IF s # <<>> /\ IsSpace(s[Len(s)]) THEN RStrip(SubSeq(s, 1, Len(s) - 1)) ELSE s

Strip(s) == RStrip(LStrip(s))

\* every run of whitespace becomes one space
RECURSIVE CollapseSpaces(_)
CollapseSpaces(s) ==
    IF s = <<>> THEN <<>>
    ELSE IF IsSpace(Head(s))
         THEN <<" ">> \o CollapseSpaces(LStrip(s))
         ELSE <<Head(s)>> \o CollapseSpaces(Tail(s))

\* str.title: a cased character is upper-cased after an uncased one (or at
\* the start) and lower-cased after a cased one
StrTitle(s) ==
    [i \in 1..Len(s) |->
        IF i = 1 \/ ~IsCased(s[i - 1]) THEN ToUpper(s[i]) ELSE ToLower(s[i])]

\* The missing value of a text column (NaN in an object column): no string
NA == <<"<NA>">>
EmptyString == <<>>

\* astype(str) prints NaN as "nan" (object columns, pandas before 3.0)
AsStr(cell) == IF cell = NA THEN <<"n", "a", "n">> ELSE cell

clean_text(cell, title) ==
    LET s == CollapseSpaces(Strip(AsStr(cell)))
    IN  IF title THEN StrTitle(s) ELSE s

-----------------------------------------------------------------------------
(* Numbers and dates: pd.to_numeric(errors="coerce"), astype(int),         *)
(* pd.to_datetime(errors="coerce")                                         *)

NaN == [nan |-> TRUE, w |-> 0, f |-> 0]
Num(w, f) == [nan |-> FALSE, w |-> w, f |-> f]

isna(x) == x.nan
IsNegative(x) == ~x.nan /\ (x.w < 0 \/ x.f < 0)
IsIntegral(x) == ~x.nan /\ x.f = 0

\* the numerals that occur in the inputs; anything else does not parse
ToNumeric(cell) ==
    CASE cell = "0"   -> Num(0, 0)
      [] cell = "1"   -> Num(1, 0)
      [] cell = "2"   -> Num(2, 0)
      [] cell = "3"   -> Num(3, 0)
      [] cell = "2.5" -> Num(2, 5)
      [] cell = "-5"  -> Num(-5, 0)
      [] OTHER        -> NaN

\* astype(int) truncates towards zero; NaN cannot be converted
AsInt(x) == IF x.nan THEN x ELSE Num(x.w, 0)

NaT == "NaT"
ParseableDates == {"2025-01-01", "2025-03-10 08:30:00"}
ToDatetime(cell) == IF cell \in ParseableDates THEN cell ELSE NaT
IsNaT(d) == d = NaT

-----------------------------------------------------------------------------
(* The input files                                                         *)

RawIds == {"", "1", "2"}
RawRefs == {"", "1", "3"}
RawQuantities == {"", "-5", "0", "2.5"}
RawExpiry == {"2025-01-01", "soon"}
RawTimestamps == {"2025-03-10 08:30:00", "n/a"}
RawCities == {<<" ", "o", "s", "l", "o">>, <<"R", "O", "M", "E">>}
RawLocations == {EmptyString, <<" ">>, <<"b", "a", "y">>}
\* categorical cells: keys of the maps in several spellings, values that are
\* not keys, and the empty cell
RawProviderTypes == {<<"R", "e", "s", "t", "a", "u", "r", "a", "n", "t">>,
                     <<"g", "r", "o", "c", "e", "r", "y", " ", " ", "s", "t", "o", "r", "e">>,
                     <<"C", "h", "a", "r", "i", "t", "y">>,
                     EmptyString}
RawFoodTypes == {<<"V", "e", "g", "a", "n">>,
                 <<"n", "o", "n", "-", "v", "e", "g", "e", "t", "a", "r", "i", "a", "n">>,
                 <<"H", "a", "l", "a", "l">>,
                 EmptyString}
RawMealTypes == {<<"L", "u", "n", "c", "h">>,
                 <<" ", "S", "N", "A", "C", "K", "S">>,
                 <<"B", "r", "u", "n", "c", "h">>,
                 EmptyString}
RawStatuses == {<<"P", "e", "n", "d", "i", "n", "g">>,
                <<"C", "a", "n", "c", "e", "l", "e", "d">>,
                <<"c", "A", "n", "C", "e", "L", "e", "D">>,
                <<"C", "A", "N", "C", "E", "L", "L", "E", "D">>,
                <<" ", "c", "o", "m", "p", "l", "e", "t", "e", "d">>,
                <<"O", "n", " ", "H", "o", "l", "d">>,
                EmptyString}

ProviderRows == [Provider_ID : RawIds, City : RawCities]
ReceiverRows == [Receiver_ID : RawIds]
\* A claim row is the typical row changed in the cells of one column group
TypicalClaim ==
    [Claim_ID |-> "1", Food_ID |-> "1", Receiver_ID |-> "1",
     Status |-> <<"P", "e", "n", "d", "i", "n", "g">>, Timestamp |-> "2025-03-10 08:30:00"]
ClaimColumnGroups ==
    {{"Claim_ID", "Food_ID", "Timestamp"},
     {"Claim_ID", "Receiver_ID", "Timestamp"},
     {"Food_ID", "Receiver_ID"}}
ClaimRows ==
    {r \in [Claim_ID : RawIds, Food_ID : RawRefs, Receiver_ID : RawRefs,
            Status : {TypicalClaim.Status}, Timestamp : RawTimestamps] :
        \E g \in ClaimColumnGroups :
            \A c \in DOMAIN r : c \notin g => r[c] = TypicalClaim[c]}

\* A food row is the typical row changed in the cells of one column group
TypicalFood ==
    [Food_ID |-> "1", Quantity |-> "0", Expiry_Date |-> "2025-01-01",
     Provider_ID |-> "1", Provider_Type |-> <<"R", "e", "s", "t", "a", "u", "r", "a", "n", "t">>,
     Location |-> <<"b", "a", "y">>, Food_Type |-> <<"V", "e", "g", "a", "n">>,
     Meal_Type |-> <<"L", "u", "n", "c", "h">>]
FoodColumnGroups ==
    {{"Food_ID", "Provider_ID", "Expiry_Date"},
     {"Food_ID", "Quantity"},
     {"Provider_ID", "Quantity"},
     {"Quantity", "Expiry_Date"},
     {"Provider_ID", "Location"}}
FoodRows ==
    {r \in [Food_ID : RawIds, Quantity : RawQuantities, Expiry_Date : RawExpiry,
            Provider_ID : RawRefs, Provider_Type : {TypicalFood.Provider_Type},
            Location : RawLocations, Food_Type : {TypicalFood.Food_Type},
            Meal_Type : {TypicalFood.Meal_Type}] :
        \E g \in FoodColumnGroups :
            \A c \in DOMAIN r : c \notin g => r[c] = TypicalFood[c]}

\* A consistent dataset: every reference resolves, two listings lack a Location
BaselineFiles ==
    [providers |-> <<[Provider_ID |-> "1", City |-> <<" ", "o", "s", "l", "o">>],
                     [Provider_ID |-> "2", City |-> <<"R", "O", "M", "E">>]>>,
     receivers |-> <<[Receiver_ID |-> "1"]>>,
     food      |-> <<[Food_ID |-> "1", Quantity |-> "0", Expiry_Date |-> "2025-01-01",
                      Provider_ID |-> "1", Provider_Type |-> TypicalFood.Provider_Type,
                      Location |-> EmptyString, Food_Type |-> TypicalFood.Food_Type,
                      Meal_Type |-> TypicalFood.Meal_Type],
                     [Food_ID |-> "2", Quantity |-> "2.5", Expiry_Date |-> "2025-01-01",
                      Provider_ID |-> "2", Provider_Type |-> TypicalFood.Provider_Type,
                      Location |-> <<" ">>, Food_Type |-> TypicalFood.Food_Type,
                      Meal_Type |-> TypicalFood.Meal_Type]>>,
     claims    |-> <<[Claim_ID |-> "1", Food_ID |-> "1", Receiver_ID |-> "1",
                      Status |-> TypicalClaim.Status,
                      Timestamp |-> "2025-03-10 08:30:00"],
                     [Claim_ID |-> "2", Food_ID |-> "2", Receiver_ID |-> "1",
                      Status |-> TypicalClaim.Status,
                      Timestamp |-> "2025-03-10 08:30:00"]>>]

Tables == {"providers", "receivers", "food", "claims"}

TextColumns == {"City", "Location", "Provider_Type", "Food_Type", "Meal_Type", "Status"}

\* pd.read_csv: the rows of a file, each with its index label (0-based in
\* pandas, 1-based here); an empty cell of a text column is read as NaN
\* (an empty cell of a numeric column too: ToNumeric gives NaN for it)
read_csv(file) ==
    [i \in 1..Len(file) |->
        [idx   |-> i,
         cells |-> [c \in DOMAIN file[i] |->
                      IF c \in TextColumns /\ file[i][c] = EmptyString
                      THEN NA ELSE file[i][c]]]]

-----------------------------------------------------------------------------
(* Dataframe helpers                                                       *)

\* df[mask]: boolean indexing, mask a sequence of booleans as long as df
RECURSIVE BoolIndex(_, _)
BoolIndex(df, mask) ==
    IF df = <<>> THEN <<>>
    ELSE (IF Head(mask) THEN <<Head(df)>> ELSE <<>>) \o BoolIndex(Tail(df), Tail(mask))

Not(mask) == [i \in 1..Len(mask) |-> ~mask[i]]

\* df.duplicated(key, keep="first")
duplicated(df, key) ==
    [i \in 1..Len(df) |-> \E j \in 1..(i - 1) : df[j][key] = df[i][key]]

\* series.isin(values)
isin(df, col, values) == [i \in 1..Len(df) |-> df[i][col] \in values]

-----------------------------------------------------------------------------
(* BASIC NORMALIZATION, per table                                          *)

normalize_providers(df) ==
    [i \in 1..Len(df) |->
        [idx         |-> df[i].idx,
         Provider_ID |-> ToNumeric(df[i].cells.Provider_ID),
         City        |-> clean_text(df[i].cells.City, TRUE)]]

normalize_receivers(df) ==
    [i \in 1..Len(df) |->
        [idx         |-> df[i].idx,
         Receiver_ID |-> ToNumeric(df[i].cells.Receiver_ID)]]

normalize_food(df) ==
    [i \in 1..Len(df) |->
        [idx         |-> df[i].idx,
         Food_ID     |-> ToNumeric(df[i].cells.Food_ID),
         Quantity    |-> ToNumeric(df[i].cells.Quantity),
         Provider_ID |-> ToNumeric(df[i].cells.Provider_ID),
         Provider_Type |-> clean_text(df[i].cells.Provider_Type, TRUE),
         Location    |-> clean_text(df[i].cells.Location, TRUE),
         Food_Type   |-> clean_text(df[i].cells.Food_Type, TRUE),
         Meal_Type   |-> clean_text(df[i].cells.Meal_Type, TRUE),
         Expiry_Date |-> ToDatetime(df[i].cells.Expiry_Date)]]

\* normalize_claims with line 108 as clean_text(claims["Status"])
normalize_claims_untitled(df) ==
    [i \in 1..Len(df) |->
        [idx         |-> df[i].idx,
         Claim_ID    |-> ToNumeric(df[i].cells.Claim_ID),
         Food_ID     |-> ToNumeric(df[i].cells.Food_ID),
         Receiver_ID |-> ToNumeric(df[i].cells.Receiver_ID),
         Status      |-> clean_text(df[i].cells.Status, FALSE),
         Timestamp   |-> ToDatetime(df[i].cells.Timestamp)]]

normalize_claims(df) ==
    [i \in 1..Len(df) |->
        [idx         |-> df[i].idx,
         Claim_ID    |-> ToNumeric(df[i].cells.Claim_ID),
         Food_ID     |-> ToNumeric(df[i].cells.Food_ID),
         Receiver_ID |-> ToNumeric(df[i].cells.Receiver_ID),
         Status      |-> clean_text(df[i].cells.Status, TRUE),
         Timestamp   |-> ToDatetime(df[i].cells.Timestamp)]]

-----------------------------------------------------------------------------
(* Normalize categorical vocab                                             *)

PROVIDER_TYPE_MAP ==
    (<<"R", "e", "s", "t", "a", "u", "r", "a", "n", "t">> :> <<"R", "e", "s", "t", "a", "u", "r", "a", "n", "t">>)
    @@ (<<"G", "r", "o", "c", "e", "r", "y", " ", "S", "t", "o", "r", "e">> :>
        <<"G", "r", "o", "c", "e", "r", "y", " ", "S", "t", "o", "r", "e">>)
    @@ (<<"S", "u", "p", "e", "r", "m", "a", "r", "k", "e", "t">> :> <<"S", "u", "p", "e", "r", "m", "a", "r", "k", "e", "t">>)

FOOD_TYPE_MAP ==
    (<<"V", "e", "g", "e", "t", "a", "r", "i", "a", "n">> :> <<"V", "e", "g", "e", "t", "a", "r", "i", "a", "n">>)
    @@ (<<"N", "o", "n", "-", "V", "e", "g", "e", "t", "a", "r", "i", "a", "n">> :>
        <<"N", "o", "n", "-", "V", "e", "g", "e", "t", "a", "r", "i", "a", "n">>)
    @@ (<<"V", "e", "g", "a", "n">> :> <<"V", "e", "g", "a", "n">>)

MEAL_TYPE_MAP ==
    (<<"B", "r", "e", "a", "k", "f", "a", "s", "t">> :> <<"B", "r", "e", "a", "k", "f", "a", "s", "t">>)
    @@ (<<"L", "u", "n", "c", "h">> :> <<"L", "u", "n", "c", "h">>)
    @@ (<<"D", "i", "n", "n", "e", "r">> :> <<"D", "i", "n", "n", "e", "r">>)
    @@ (<<"S", "n", "a", "c", "k", "s">> :> <<"S", "n", "a", "c", "k", "s">>)

\* STATUS_MAP with the two spellings mapped to each other
STATUS_MAP_crossed ==
    (<<"P", "e", "n", "d", "i", "n", "g">> :> <<"P", "e", "n", "d", "i", "n", "g">>)
    @@ (<<"C", "o", "m", "p", "l", "e", "t", "e", "d">> :> <<"C", "o", "m", "p", "l", "e", "t", "e", "d">>)
    @@ (<<"C", "a", "n", "c", "e", "l", "l", "e", "d">> :> <<"C", "a", "n", "c", "e", "l", "e", "d">>)
    @@ (<<"C", "a", "n", "c", "e", "l", "e", "d">> :> <<"C", "a", "n", "c", "e", "l", "l", "e", "d">>)

STATUS_MAP ==
    (<<"P", "e", "n", "d", "i", "n", "g">> :> <<"P", "e", "n", "d", "i", "n", "g">>)
    @@ (<<"C", "o", "m", "p", "l", "e", "t", "e", "d">> :> <<"C", "o", "m", "p", "l", "e", "t", "e", "d">>)
    @@ (<<"C", "a", "n", "c", "e", "l", "l", "e", "d">> :> <<"C", "a", "n", "c", "e", "l", "l", "e", "d">>)
    @@ (<<"C", "a", "n", "c", "e", "l", "e", "d">> :> <<"C", "a", "n", "c", "e", "l", "l", "e", "d">>)

\* MAP.get(x): a value that is not a key becomes None
get_or_none(map, x) == IF x \in DOMAIN map THEN map[x] ELSE NA

\* MAP.get(x, x)
get(map, x) == IF x \in DOMAIN map THEN map[x] ELSE x

\* df[col].map(lambda x: MAP.get(x, x))
map_column(df, col, map) ==
    [i \in 1..Len(df) |-> [df[i] EXCEPT ![col] = get(map, @)]]

-----------------------------------------------------------------------------
(* VALIDATION & FIXUPS                                                     *)

drop_na_ids(df, id_col) ==
    LET kept == BoolIndex(df, [i \in 1..Len(df) |-> ~isna(df[i][id_col])])
    IN  [i \in 1..Len(kept) |-> [kept[i] EXCEPT ![id_col] = AsInt(@)]]

\* the rows drop_dupe_keys moves to the rejects
dupe_rows(df, key) == BoolIndex(df, duplicated(df, key))

\* drop_dupe_keys without line 137
drop_dupe_keys_keep_all(df, key) == df

\* the dataframe drop_dupe_keys returns
drop_dupe_keys(df, key) ==
    IF dupe_rows(df, key) # <<>> THEN BoolIndex(df, Not(duplicated(df, key))) ELSE df

\* line 146 with <= for <
bad_qty_mask_nonpositive(df) ==
    [i \in 1..Len(df) |->
        isna(df[i].Quantity) \/ IsNegative(df[i].Quantity) \/ df[i].Quantity = Num(0, 0)]

bad_qty_mask(df) ==
    [i \in 1..Len(df) |-> isna(df[i].Quantity) \/ IsNegative(df[i].Quantity)]

\* food[~food.index.isin(bad_qty.index)]
drop_index(df, bad) ==
    BoolIndex(df, [i \in 1..Len(df) |-> df[i].idx \notin Column(bad, "idx")])

quantity_astype_int(df) ==
    [i \in 1..Len(df) |-> [df[i] EXCEPT !.Quantity = AsInt(@)]]

\* food[~food["Provider_ID"].isin(valid_provider_ids)]
bad_food_fk(df, provider_ids) == BoolIndex(df, Not(isin(df, "Provider_ID", provider_ids)))

\* lines 188-191 without the filter of line 191
food_fk_kept_unfiltered(df, provider_ids) == df

\* the food dataframe after lines 188-191
food_fk_kept(df, provider_ids) ==
    IF bad_food_fk(df, provider_ids) # <<>>
    THEN BoolIndex(df, isin(df, "Provider_ID", provider_ids))
    ELSE df

\* line 197 with & for |
bad_claims_fk_mask_both(df, food_ids, receiver_ids) ==
    [i \in 1..Len(df) |->
        df[i].Food_ID \notin food_ids /\ df[i].Receiver_ID \notin receiver_ids]

bad_claims_fk_mask(df, food_ids, receiver_ids) ==
    [i \in 1..Len(df) |->
        df[i].Food_ID \notin food_ids \/ df[i].Receiver_ID \notin receiver_ids]

good_claims_fk_mask(df, food_ids, receiver_ids) ==
    [i \in 1..Len(df) |->
        df[i].Food_ID \in food_ids /\ df[i].Receiver_ID \in receiver_ids]

\* providers.set_index("Provider_ID")["City"], applied to a Provider_ID
\* (Series.map gives NaN, printed "nan" here, where the index has no such label)
city_of(prov, id) ==
    IF \E i \in 1..Len(prov) : prov[i].Provider_ID = id
    THEN prov[CHOOSE i \in 1..Len(prov) : prov[i].Provider_ID = id].City
    ELSE NA

\* np.where(isna | == "", provider's City, Location)
backfill_location(df, prov) ==
    [i \in 1..Len(df) |->
        [df[i] EXCEPT !.Location =
            IF @ = NA \/ @ = EmptyString THEN city_of(prov, df[i].Provider_ID) ELSE @]]

-----------------------------------------------------------------------------
(* Files written by a run                                                  *)

Artifacts == {"providers_duplicate_provider_id", "receivers_duplicate_receiver_id",
              "food_listings_duplicate_food_id", "claims_duplicate_claim_id",
              "food_invalid_quantity", "food_bad_provider_fk", "claims_bad_fk",
              "food_bad_expiry", "claims_bad_timestamp"}

NoRejects == [a \in Artifacts |-> <<>>]
NoCleaned == [written |-> FALSE, providers |-> <<>>, receivers |-> <<>>,
              food |-> <<>>, claims |-> <<>>]
NoStore == [exists |-> FALSE, schema |-> FALSE, Providers |-> <<>>, Receivers |-> <<>>,
            Food_Listings |-> <<>>, Claims |-> <<>>]

\* a store left by an earlier run
PriorStore ==
    [exists |-> TRUE, schema |-> TRUE,
     Providers |-> <<[idx |-> 1, Provider_ID |-> Num(1, 0), City |-> <<"O", "s", "l", "o">>]>>,
     Receivers |-> <<[idx |-> 1, Receiver_ID |-> Num(1, 0)]>>,
     Food_Listings |-> <<>>,
     Claims |-> <<>>]

\* The rows of the written files keep idx, the position of the row in its
\* input file, although index=False leaves it out of the files themselves.

\* dupe.to_csv(...) etc.: a reject artifact is written only when it has rows
to_csv_if_any(files, name, rows) ==
    IF rows # <<>> THEN [files EXCEPT ![name] = rows] ELSE files

-----------------------------------------------------------------------------
(* The script, stage by stage                                              *)

\* no run before this one
NoRun == [n |-> 0, pc |-> "none", raw |-> <<>>, cleaned |-> NoCleaned, db |-> NoStore]

\* no connection; no open transaction; no query issued
NoConn == 0
NoTxn == [owner |-> NoConn, view |-> NoStore]
NoQuery == [name |-> "none", ok |-> TRUE]

\* the script has not run before and no dashboard is open
FirstRunNoDashboard ==
    /\ prev = NoRun
    /\ conn_cache = NoConn
    /\ txn = NoTxn
    /\ sessions = <<>>
    /\ query = NoQuery

\* The datasets of the model: one of the four files is any file of at most
\* Max... rows, the other three are the baseline files
IsInput(files) ==
    \/ \E f \in SeqUpTo(ProviderRows, MaxProviders) :
          files = [BaselineFiles EXCEPT !.providers = f]
    \/ \E f \in SeqUpTo(ReceiverRows, MaxReceivers) :
          files = [BaselineFiles EXCEPT !.receivers = f]
    \/ \E f \in SeqUpTo(FoodRows, MaxFood) :
          files = [BaselineFiles EXCEPT !.food = f]
    \/ \E f \in SeqUpTo(ClaimRows, MaxClaims) :
          files = [BaselineFiles EXCEPT !.claims = f]

\* A run starts with the store of an earlier run, or (on the baseline files)
\* with no store
Init ==
    /\ pc = "load"
    /\ IsInput(raw)
    /\ providers = <<>> /\ receivers = <<>> /\ food = <<>> /\ claims = <<>>
    /\ valid_provider_ids = {} /\ valid_receiver_ids = {} /\ valid_food_ids = {}
    /\ rejects = NoRejects
    /\ cleaned = NoCleaned
    /\ \/ db = PriorStore
       \/ db = NoStore /\ raw = BaselineFiles
    /\ FirstRunNoDashboard

\* The datasets with other categorical cells: the baseline files with the
\* categorical cells of the first listing, or the Status of the first claim,
\* replaced
IsVocabInput(files) ==
    \/ \E pt \in RawProviderTypes, ft \in RawFoodTypes, mt \in RawMealTypes :
          files = [BaselineFiles EXCEPT !.food[1].Provider_Type = pt,
                                        !.food[1].Food_Type = ft,
                                        !.food[1].Meal_Type = mt]
    \/ \E st \in RawStatuses :
          files = [BaselineFiles EXCEPT !.claims[1].Status = st]

InitVocab ==
    /\ pc = "load"
    /\ IsVocabInput(raw)
    /\ providers = <<>> /\ receivers = <<>> /\ food = <<>> /\ claims = <<>>
    /\ valid_provider_ids = {} /\ valid_receiver_ids = {} /\ valid_food_ids = {}
    /\ rejects = NoRejects
    /\ cleaned = NoCleaned
    /\ db \in {NoStore, PriorStore}
    /\ FirstRunNoDashboard

\* lines 43-46, with the store removed at start-up (lines 235-236 moved up)
LoadAfterUnlink ==
    /\ pc = "load"
    /\ providers' = read_csv(raw.providers)
    /\ receivers' = read_csv(raw.receivers)
    /\ food' = read_csv(raw.food)
    /\ claims' = read_csv(raw.claims)
    /\ db' = NoStore
    /\ pc' = "norm_providers"
    /\ UNCHANGED <<prev, app_vars, raw, valid_provider_ids, valid_receiver_ids, valid_food_ids,
                   rejects, cleaned>>

\* lines 43-46
Load ==
    /\ pc = "load"
    /\ providers' = read_csv(raw.providers)
    /\ receivers' = read_csv(raw.receivers)
    /\ food' = read_csv(raw.food)
    /\ claims' = read_csv(raw.claims)
    /\ pc' = "norm_providers"
    /\ UNCHANGED <<prev, app_vars, raw, valid_provider_ids, valid_receiver_ids, valid_food_ids,
                   rejects, cleaned, db>>

\* lines 50-61; has_columns: the file has every expected column
NormalizeProviders ==
    /\ pc = "norm_providers"
    /\ \E has_columns \in BOOLEAN :
          IF has_columns
          THEN /\ providers' = normalize_providers(providers)
               /\ pc' = "norm_receivers"
          ELSE /\ pc' = "fatal"
               /\ UNCHANGED providers
    /\ UNCHANGED <<prev, app_vars, raw, receivers, food, claims, valid_provider_ids, valid_receiver_ids,
                   valid_food_ids, rejects, cleaned, db>>

\* lines 64-74
NormalizeReceivers ==
    /\ pc = "norm_receivers"
    /\ \E has_columns \in BOOLEAN :
          IF has_columns
          THEN /\ receivers' = normalize_receivers(receivers)
               /\ pc' = "norm_food"
          ELSE /\ pc' = "fatal"
               /\ UNCHANGED receivers
    /\ UNCHANGED <<prev, app_vars, raw, providers, food, claims, valid_provider_ids, valid_receiver_ids,
                   valid_food_ids, rejects, cleaned, db>>

\* lines 77-96
NormalizeFood ==
    /\ pc = "norm_food"
    /\ \E has_columns \in BOOLEAN :
          IF has_columns
          THEN /\ food' = normalize_food(food)
               /\ pc' = "norm_claims"
          ELSE /\ pc' = "fatal"
               /\ UNCHANGED food
    /\ UNCHANGED <<prev, app_vars, raw, providers, receivers, claims, valid_provider_ids,
                   valid_receiver_ids, valid_food_ids, rejects, cleaned, db>>

\* lines 99-111
NormalizeClaims ==
    /\ pc = "norm_claims"
    /\ \E has_columns \in BOOLEAN :
          IF has_columns
          THEN /\ claims' = normalize_claims(claims)
               /\ pc' = "na_ids"
          ELSE /\ pc' = "fatal"
               /\ UNCHANGED claims
    /\ UNCHANGED <<prev, app_vars, raw, providers, receivers, food, valid_provider_ids,
                   valid_receiver_ids, valid_food_ids, rejects, cleaned, db>>

\* lines 123-129
DropNaIds ==
    /\ pc = "na_ids"
    /\ providers' = drop_na_ids(providers, "Provider_ID")
    /\ receivers' = drop_na_ids(receivers, "Receiver_ID")
    /\ food' = drop_na_ids(drop_na_ids(food, "Food_ID"), "Provider_ID")
    /\ claims' = drop_na_ids(drop_na_ids(drop_na_ids(claims, "Claim_ID"), "Food_ID"),
                             "Receiver_ID")
    /\ pc' = "dupe_keys"
    /\ UNCHANGED <<prev, app_vars, raw, valid_provider_ids, valid_receiver_ids, valid_food_ids,
                   rejects, cleaned, db>>

\* lines 140-143
DropDupeKeys ==
    /\ pc = "dupe_keys"
    /\ providers' = drop_dupe_keys(providers, "Provider_ID")
    /\ receivers' = drop_dupe_keys(receivers, "Receiver_ID")
    /\ food' = drop_dupe_keys(food, "Food_ID")
    /\ claims' = drop_dupe_keys(claims, "Claim_ID")
    /\ rejects' =
         to_csv_if_any(
           to_csv_if_any(
             to_csv_if_any(
               to_csv_if_any(rejects, "providers_duplicate_provider_id",
                             dupe_rows(providers, "Provider_ID")),
               "receivers_duplicate_receiver_id", dupe_rows(receivers, "Receiver_ID")),
             "food_listings_duplicate_food_id", dupe_rows(food, "Food_ID")),
           "claims_duplicate_claim_id", dupe_rows(claims, "Claim_ID"))
    /\ pc' = "quantity"
    /\ UNCHANGED <<prev, app_vars, raw, valid_provider_ids, valid_receiver_ids, valid_food_ids,
                   cleaned, db>>

\* lines 146-151
BadQty ==
    /\ pc = "quantity"
    /\ LET bad_qty == BoolIndex(food, bad_qty_mask(food))
       IN  /\ rejects' = to_csv_if_any(rejects, "food_invalid_quantity", bad_qty)
           /\ food' = quantity_astype_int(
                         IF bad_qty # <<>> THEN drop_index(food, bad_qty) ELSE food)
    /\ pc' = "vocab"
    /\ UNCHANGED <<prev, app_vars, raw, providers, receivers, claims, valid_provider_ids,
                   valid_receiver_ids, valid_food_ids, cleaned, db>>

\* lines 153-180
NormalizeVocab ==
    /\ pc = "vocab"
    /\ food' = map_column(map_column(map_column(food,
                    "Provider_Type", PROVIDER_TYPE_MAP),
                    "Food_Type", FOOD_TYPE_MAP),
                    "Meal_Type", MEAL_TYPE_MAP)
    /\ claims' = map_column(claims, "Status", STATUS_MAP)
    /\ pc' = "food_fk"
    /\ UNCHANGED <<prev, app_vars, raw, providers, receivers, valid_provider_ids, valid_receiver_ids,
                   valid_food_ids, rejects, cleaned, db>>

\* lines 183-193
FoodFK ==
    /\ pc = "food_fk"
    /\ LET provider_ids == Column(providers, "Provider_ID")
           kept == food_fk_kept(food, provider_ids)
       IN  /\ valid_provider_ids' = provider_ids
           /\ valid_receiver_ids' = Column(receivers, "Receiver_ID")
           /\ rejects' = to_csv_if_any(rejects, "food_bad_provider_fk",
                                       bad_food_fk(food, provider_ids))
           /\ food' = kept
           /\ valid_food_ids' = Column(kept, "Food_ID")
    /\ pc' = "claims_fk"
    /\ UNCHANGED <<prev, app_vars, raw, providers, receivers, claims, cleaned, db>>

\* lines 196-204
ClaimsFK ==
    /\ pc = "claims_fk"
    /\ LET bad_claims_fk ==
               BoolIndex(claims,
                         bad_claims_fk_mask(claims, valid_food_ids, valid_receiver_ids))
       IN  /\ rejects' = to_csv_if_any(rejects, "claims_bad_fk", bad_claims_fk)
           /\ claims' = IF bad_claims_fk # <<>>
                        THEN BoolIndex(claims,
                                 good_claims_fk_mask(claims, valid_food_ids,
                                                     valid_receiver_ids))
                        ELSE claims
    /\ pc' = "expiry"
    /\ UNCHANGED <<prev, app_vars, raw, providers, receivers, food, valid_provider_ids,
                   valid_receiver_ids, valid_food_ids, cleaned, db>>

\* lines 207-211
BadExpiry ==
    /\ pc = "expiry"
    /\ LET na == [i \in 1..Len(food) |-> IsNaT(food[i].Expiry_Date)]
           bad_expiry == BoolIndex(food, na)
       IN  /\ rejects' = to_csv_if_any(rejects, "food_bad_expiry", bad_expiry)
           /\ food' = IF bad_expiry # <<>> THEN BoolIndex(food, Not(na)) ELSE food
    /\ pc' = "timestamp"
    /\ UNCHANGED <<prev, app_vars, raw, providers, receivers, claims, valid_provider_ids,
                   valid_receiver_ids, valid_food_ids, cleaned, db>>

\* lines 213-217
BadTs ==
    /\ pc = "timestamp"
    /\ LET na == [i \in 1..Len(claims) |-> IsNaT(claims[i].Timestamp)]
           bad_ts == BoolIndex(claims, na)
       IN  /\ rejects' = to_csv_if_any(rejects, "claims_bad_timestamp", bad_ts)
           /\ claims' = IF bad_ts # <<>> THEN BoolIndex(claims, Not(na)) ELSE claims
    /\ pc' = "backfill"
    /\ UNCHANGED <<prev, app_vars, raw, providers, receivers, food, valid_provider_ids,
                   valid_receiver_ids, valid_food_ids, cleaned, db>>

\* lines 220-224
Backfill ==
    /\ pc = "backfill"
    /\ food' = backfill_location(food, providers)
    /\ pc' = "save"
    /\ UNCHANGED <<prev, app_vars, raw, providers, receivers, claims, valid_provider_ids,
                   valid_receiver_ids, valid_food_ids, rejects, cleaned, db>>

\* lines 227-230 with mode="a": the rows are added to the file that is there
SaveCsvAppend ==
    /\ pc = "save"
    /\ cleaned' = [written |-> TRUE, providers |-> cleaned.providers \o providers,
                   receivers |-> cleaned.receivers \o receivers,
                   food |-> cleaned.food \o food, claims |-> cleaned.claims \o claims]
    /\ pc' = "unlink"
    /\ UNCHANGED <<prev, app_vars, raw, providers, receivers, food, claims,
                   valid_provider_ids, valid_receiver_ids, valid_food_ids, rejects, db>>

\* lines 227-230
SaveCsv ==
    /\ pc = "save"
    /\ cleaned' = [written |-> TRUE, providers |-> providers, receivers |-> receivers,
                   food |-> food, claims |-> claims]
    /\ pc' = "unlink"
    /\ UNCHANGED <<prev, app_vars, raw, providers, receivers, food, claims, valid_provider_ids,
                   valid_receiver_ids, valid_food_ids, rejects, db>>

-----------------------------------------------------------------------------
(* BUILD SQLITE DB                                                         *)

\* PRIMARY KEY: no two rows of a table with the same key
pk_unique(rows, key) ==
    \A i, j \in 1..Len(rows) : rows[i][key] = rows[j][key] => i = j

\* FOREIGN KEY (col) REFERENCES parent(key), with PRAGMA foreign_keys = ON
fk_resolves(rows, col, parent, key) ==
    \A i \in 1..Len(rows) : rows[i][col] \in Column(parent, key)

\* lines 235-236
Unlink ==
    /\ pc = "unlink"
    /\ db' = NoStore
    /\ pc' = "create"
    /\ UNCHANGED <<prev, app_vars, raw, providers, receivers, food, claims, valid_provider_ids,
                   valid_receiver_ids, valid_food_ids, rejects, cleaned>>

\* lines 237-295: connect creates the file, executescript the empty tables
CreateSchema ==
    /\ pc = "create"
    /\ db' = [NoStore EXCEPT !.exists = TRUE, !.schema = TRUE]
    /\ pc' = "insert_providers"
    /\ UNCHANGED <<prev, app_vars, raw, providers, receivers, food, claims, valid_provider_ids,
                   valid_receiver_ids, valid_food_ids, rejects, cleaned>>

\* line 298; to_sql inserts all rows in one transaction and rolls it back
\* when a row breaks a constraint, and the exception ends the script
InsertProviders ==
    /\ pc = "insert_providers"
    /\ IF pk_unique(db.Providers \o providers, "Provider_ID")
       THEN /\ db' = [db EXCEPT !.Providers = @ \o providers]
            /\ pc' = "insert_receivers"
       ELSE /\ pc' = "integrity_error"
            /\ UNCHANGED db
    /\ UNCHANGED <<prev, app_vars, raw, providers, receivers, food, claims, valid_provider_ids,
                   valid_receiver_ids, valid_food_ids, rejects, cleaned>>

\* line 299
InsertReceivers ==
    /\ pc = "insert_receivers"
    /\ IF pk_unique(db.Receivers \o receivers, "Receiver_ID")
       THEN /\ db' = [db EXCEPT !.Receivers = @ \o receivers]
            /\ pc' = "insert_food"
       ELSE /\ pc' = "integrity_error"
            /\ UNCHANGED db
    /\ UNCHANGED <<prev, app_vars, raw, providers, receivers, food, claims, valid_provider_ids,
                   valid_receiver_ids, valid_food_ids, rejects, cleaned>>

\* line 300
InsertFood ==
    /\ pc = "insert_food"
    /\ IF /\ pk_unique(db.Food_Listings \o food, "Food_ID")
          /\ fk_resolves(food, "Provider_ID", db.Providers, "Provider_ID")
       THEN /\ db' = [db EXCEPT !.Food_Listings = @ \o food]
            /\ pc' = "insert_claims"
       ELSE /\ pc' = "integrity_error"
            /\ UNCHANGED db
    /\ UNCHANGED <<prev, app_vars, raw, providers, receivers, food, claims, valid_provider_ids,
                   valid_receiver_ids, valid_food_ids, rejects, cleaned>>

\* lines 301-304
InsertClaims ==
    /\ pc = "insert_claims"
    /\ IF /\ pk_unique(db.Claims \o claims, "Claim_ID")
          /\ fk_resolves(claims, "Food_ID", db.Food_Listings, "Food_ID")
          /\ fk_resolves(claims, "Receiver_ID", db.Receivers, "Receiver_ID")
       THEN /\ db' = [db EXCEPT !.Claims = @ \o claims]
            /\ pc' = "done"
       ELSE /\ pc' = "integrity_error"
            /\ UNCHANGED db
    /\ UNCHANGED <<prev, app_vars, raw, providers, receivers, food, claims, valid_provider_ids,
                   valid_receiver_ids, valid_food_ids, rejects, cleaned>>

Next ==
    \/ Load
    \/ NormalizeProviders
    \/ NormalizeReceivers
    \/ NormalizeFood
    \/ NormalizeClaims
    \/ DropNaIds
    \/ DropDupeKeys
    \/ BadQty
    \/ NormalizeVocab
    \/ FoodFK
    \/ ClaimsFK
    \/ BadExpiry
    \/ BadTs
    \/ Backfill
    \/ SaveCsv
    \/ Unlink
    \/ CreateSchema
    \/ InsertProviders
    \/ InsertReceivers
    \/ InsertFood
    \/ InsertClaims

Spec == Init /\ [][Next]_vars

\* the runs on the datasets of IsVocabInput
SpecVocab == InitVocab /\ [][Next]_vars

-----------------------------------------------------------------------------
(* Several runs of the script on one output directory                      *)

\* The datasets of the runs: the baseline files, or the baseline files with
\* one cell of the first row of one file replaced
IsRunInput(files) ==
    \/ files = BaselineFiles
    \/ \E id \in RawIds : files = [BaselineFiles EXCEPT !.providers[1].Provider_ID = id]
    \/ \E id \in RawIds : files = [BaselineFiles EXCEPT !.receivers[1].Receiver_ID = id]
    \/ \E id \in RawIds : files = [BaselineFiles EXCEPT !.food[1].Food_ID = id]
    \/ \E q \in RawQuantities : files = [BaselineFiles EXCEPT !.food[1].Quantity = q]
    \/ \E e \in RawExpiry : files = [BaselineFiles EXCEPT !.food[1].Expiry_Date = e]
    \/ \E ref \in RawRefs : files = [BaselineFiles EXCEPT !.food[1].Provider_ID = ref]
    \/ \E id \in RawIds : files = [BaselineFiles EXCEPT !.claims[1].Claim_ID = id]
    \/ \E ref \in RawRefs : files = [BaselineFiles EXCEPT !.claims[1].Food_ID = ref]
    \/ \E ts \in RawTimestamps : files = [BaselineFiles EXCEPT !.claims[1].Timestamp = ts]

InitRuns ==
    /\ pc = "load"
    /\ IsRunInput(raw)
    /\ providers = <<>> /\ receivers = <<>> /\ food = <<>> /\ claims = <<>>
    /\ valid_provider_ids = {} /\ valid_receiver_ids = {} /\ valid_food_ids = {}
    /\ rejects = NoRejects
    /\ cleaned = NoCleaned
    /\ db \in {NoStore, PriorStore}
    /\ FirstRunNoDashboard

\* the script has ended: normally, by a missing column, by a failed insert
Ended == pc \in {"done", "fatal", "integrity_error"}

\* The script is started again, on the same files or on other ones: a new
\* process (no dataframe), the directories and the store as they were left
NewRun ==
    /\ Ended
    /\ prev.n + 1 < MaxRuns
    /\ prev' = [n |-> prev.n + 1, pc |-> pc, raw |-> raw, cleaned |-> cleaned, db |-> db]
    /\ IsRunInput(raw')
    /\ providers' = <<>> /\ receivers' = <<>> /\ food' = <<>> /\ claims' = <<>>
    /\ valid_provider_ids' = {} /\ valid_receiver_ids' = {} /\ valid_food_ids' = {}
    /\ pc' = "load"
    /\ UNCHANGED <<rejects, cleaned, db, app_vars>>

NextRuns == Next \/ NewRun

SpecRuns == InitRuns /\ [][NextRuns]_vars

-----------------------------------------------------------------------------
(* app.py: the write layer of the dashboard (CRUD tab)                     *)
(*                                                                         *)
(* The sessions of one Streamlit process run in threads and share the      *)
(* connection get_conn has cached.  An operation is a sequence of steps:   *)
(* the SELECT of the next identifier, the INSERT, UPDATE or DELETE, the    *)
(* commit, invalidate_caches.  A statement executed and not yet committed  *)
(* is seen through its connection only, and the connection holds the write *)
(* lock of the file until a commit on it.                                  *)

\* The datasets the store of the dashboard is loaded from: one provider, one
\* receiver, and one listing with one claim or no listing and no claim
IsAppInput(files) ==
    LET small == [providers |-> <<BaselineFiles.providers[1]>>,
                  receivers |-> BaselineFiles.receivers,
                  food      |-> <<BaselineFiles.food[1]>>,
                  claims    |-> <<BaselineFiles.claims[1]>>]
    IN  \/ files = small
        \/ files = [small EXCEPT !.food = <<>>, !.claims = <<>>]

Sessions == DOMAIN sessions

\* A session: op, id and row between the SELECT of the next identifier and
\* the INSERT, conn inside run_exec, result "error" after st.error until the
\* next button
Idle == [op |-> "none", pc |-> "idle", id |-> 0, row |-> <<>>, conn |-> NoConn,
         result |-> "none", rival_inserted |-> FALSE]

InitApp ==
    /\ pc = "load"
    /\ IsAppInput(raw)
    /\ providers = <<>> /\ receivers = <<>> /\ food = <<>> /\ claims = <<>>
    /\ valid_provider_ids = {} /\ valid_receiver_ids = {} /\ valid_food_ids = {}
    /\ rejects = NoRejects
    /\ cleaned = NoCleaned
    /\ db \in {NoStore, PriorStore}
    /\ prev = NoRun
    /\ conn_cache = NoConn
    /\ txn = NoTxn
    /\ sessions = [s \in 1..NumSessions |-> Idle]
    /\ query = NoQuery

\* one session: the operations are executed one at a time
InitAppSeq ==
    /\ pc = "load"
    /\ IsAppInput(raw)
    /\ providers = <<>> /\ receivers = <<>> /\ food = <<>> /\ claims = <<>>
    /\ valid_provider_ids = {} /\ valid_receiver_ids = {} /\ valid_food_ids = {}
    /\ rejects = NoRejects
    /\ cleaned = NoCleaned
    /\ db \in {NoStore, PriorStore}
    /\ prev = NoRun
    /\ conn_cache = NoConn
    /\ txn = NoTxn
    /\ sessions = [s \in {1} |-> Idle]
    /\ query = NoQuery

\* the integers of an identifier column
IdsOf(rows, key) == {rows[i][key].w : i \in 1..Len(rows)}

SetMax(S) == CHOOSE m \in S : \A x \in S : x <= m

\* SELECT COUNT(*)+1
next_id_count(rows, key) == Len(rows) + 1

\* SELECT COALESCE(MAX(key), 0)+1
next_id(rows, key) == (IF rows = <<>> THEN 0 ELSE SetMax(IdsOf(rows, key))) + 1

\* the connections in use: cached, held by a session inside run_exec, or
\* with an open transaction
ConnsInUse == {conn_cache, txn.owner} \cup {sessions[s].conn : s \in Sessions}

\* get_conn(): the cached connection, or a new one
get_conn == IF conn_cache # NoConn THEN conn_cache
            ELSE CHOOSE c \in 1..(Cardinality(Sessions) + 2) : c \notin ConnsInUse

\* the tables as a connection sees them: with the statements executed on it
\* and not committed
View(c) == IF txn.owner = c THEN txn.view ELSE db

\* another connection holds the write lock: the statement fails with
\* "database is locked" when the lock is not released within the timeout
Locked(c) == txn.owner \notin {NoConn, c}

\* A connection nobody refers to is closed, and its open transaction is
\* rolled back
Collect(t, cache, sess) ==
    IF /\ t.owner # NoConn
       /\ t.owner # cache
       /\ \A s \in DOMAIN sess : sess[s].conn # t.owner
    THEN NoTxn ELSE t

\* the row of Add Listing; Provider_Type is the Type of the provider, a
\* column the model does not carry
NewListing(food_id, provider_id, food_type, meal_type) ==
    [idx |-> 0, Food_ID |-> Num(food_id, 0), Quantity |-> Num(1, 0),
     Provider_ID |-> Num(provider_id, 0), Provider_Type |-> NA,
     Location |-> <<"B", "a", "y">>, Food_Type |-> food_type, Meal_Type |-> meal_type,
     Expiry_Date |-> "2025-01-01"]

\* the row of Add Claim
NewClaim(claim_id, food_id, receiver_id, status) ==
    [idx |-> 0, Claim_ID |-> Num(claim_id, 0), Food_ID |-> Num(food_id, 0),
     Receiver_ID |-> Num(receiver_id, 0), Status |-> status,
     Timestamp |-> "2025-03-10 08:30:00"]

\* st.selectbox("Status", ["Pending", "Completed", "Cancelled"], index=0): the
\* choice offered first; the Status of a claim plays no part in a constraint
StatusChoices == {<<"P", "e", "n", "d", "i", "n", "g">>}

\* st.selectbox(label, options): one of the options, None when there is none
Choices(options) == IF options = {} THEN {NA} ELSE options

\* st.selectbox over the rows of a query: the row shown first, the one the
\* box has selected when it is drawn (the least identifier), when there is one
FirstOption(ids) == {id \in ids : \A other \in ids : id <= other}

\* a schema without PRIMARY KEY and FOREIGN KEY clauses
no_constraints(view, table, row) == TRUE

\* the constraints of the schema on a new row: PRIMARY KEY, FOREIGN KEY
constraints_hold(view, table, row) ==
    IF table = "Food_Listings"
    THEN /\ pk_unique(view.Food_Listings \o <<row>>, "Food_ID")
         /\ fk_resolves(<<row>>, "Provider_ID", view.Providers, "Provider_ID")
    ELSE /\ pk_unique(view.Claims \o <<row>>, "Claim_ID")
         /\ fk_resolves(<<row>>, "Food_ID", view.Food_Listings, "Food_ID")
         /\ fk_resolves(<<row>>, "Receiver_ID", view.Receivers, "Receiver_ID")

\* INSERT OR REPLACE INTO table
sql_insert_or_replace(view, table, row) ==
    LET key == IF table = "Food_Listings" THEN "Food_ID" ELSE "Claim_ID"
        others == BoolIndex(view[table],
                            [i \in 1..Len(view[table]) |-> view[table][i][key] # row[key]])
    IN  [view EXCEPT ![table] = others \o <<row>>]

\* INSERT INTO table
sql_insert(view, table, row) == [view EXCEPT ![table] = @ \o <<row>>]

\* UPDATE Food_Listings SET Quantity = ? WHERE Food_ID = ?
sql_update_quantity(view, food_id, new_qty) ==
    [view EXCEPT !.Food_Listings =
        [i \in 1..Len(@) |->
            IF @[i].Food_ID.w = food_id THEN [@[i] EXCEPT !.Quantity = Num(new_qty, 0)]
            ELSE @[i]]]

\* DELETE FROM Claims WHERE Claim_ID = ?
sql_delete_claim(view, claim_id) ==
    [view EXCEPT !.Claims =
        BoolIndex(@, [i \in 1..Len(@) |-> @[i].Claim_ID.w # claim_id])]

TableOf(op) == IF op = "add_listing" THEN "Food_Listings" ELSE "Claims"

\* the store is loaded and the script is not running
DashboardUp == pc = "done" /\ db.exists

\* lines 359-373: the button Add Listing with the values of the form, and the
\* SELECT of the next Food_ID
AddListingNextId(s) ==
    /\ DashboardUp
    /\ sessions[s].pc = "idle"
    /\ LET c == get_conn
           view == View(c)
       IN  /\ next_id(view.Food_Listings, "Food_ID")
                  < next_id(cleaned.food, "Food_ID") + MaxNewRows
           /\ \E provider_id \in IdsOf(view.Providers, "Provider_ID"),
                 food_type \in Choices(Column(view.Food_Listings, "Food_Type")),
                 meal_type \in Choices(Column(view.Food_Listings, "Meal_Type")) :
                 LET food_id == next_id(view.Food_Listings, "Food_ID")
                 IN  sessions' = [sessions EXCEPT ![s] =
                        [Idle EXCEPT !.op = "add_listing", !.pc = "insert",
                                     !.id = food_id,
                                     !.row = NewListing(food_id, provider_id,
                                                        food_type, meal_type)]]
           /\ conn_cache' = c
    /\ UNCHANGED <<pc, raw, providers, receivers, food, claims, valid_provider_ids,
                   valid_receiver_ids, valid_food_ids, rejects, cleaned, db, prev,
                   txn, query>>

\* lines 412-426: the button Add Claim with the listing and the receiver
\* picked, and the SELECT of the next Claim_ID
AddClaimNextId(s) ==
    /\ DashboardUp
    /\ sessions[s].pc = "idle"
    /\ LET c == get_conn
           view == View(c)
       IN  /\ next_id(view.Claims, "Claim_ID")
                  < next_id(cleaned.claims, "Claim_ID") + MaxNewRows
           /\ \E food_id \in FirstOption(IdsOf(view.Food_Listings, "Food_ID")),
                 receiver_id \in FirstOption(IdsOf(view.Receivers, "Receiver_ID")),
                 status \in StatusChoices :
                 LET claim_id == next_id(view.Claims, "Claim_ID")
                 IN  sessions' = [sessions EXCEPT ![s] =
                        [Idle EXCEPT !.op = "add_claim", !.pc = "insert",
                                     !.id = claim_id,
                                     !.row = NewClaim(claim_id, food_id, receiver_id,
                                                      status)]]
           /\ conn_cache' = c
    /\ UNCHANGED <<pc, raw, providers, receivers, food, claims, valid_provider_ids,
                   valid_receiver_ids, valid_food_ids, rejects, cleaned, db, prev,
                   txn, query>>

\* the session whose statement failed: st.error, the connection let go
Failed(s) == [sessions EXCEPT ![s] = [Idle EXCEPT !.result = "error"]]

\* the other sessions that wait with the same new identifier for the same table
Rivals(s) ==
    {t \in Sessions \ {s} : /\ sessions[t].pc = "insert"
                            /\ sessions[t].op = sessions[s].op
                            /\ sessions[t].id = sessions[s].id}

\* lines 374-381 and 429-432 with INSERT OR REPLACE INTO
InsertOrReplace(s) ==
    /\ sessions[s].pc = "insert"
    /\ LET c == get_conn
           view == View(c)
       IN  /\ conn_cache' = c
           /\ IF Locked(c)
              THEN /\ sessions' = Failed(s)
                   /\ txn' = Collect(txn, c, sessions')
              ELSE /\ sessions' = [sessions EXCEPT ![s] =
                                      [Idle EXCEPT !.pc = "commit", !.conn = c]]
                   /\ txn' = [owner |-> c,
                              view |-> sql_insert_or_replace(view, TableOf(sessions[s].op),
                                                             sessions[s].row)]
    /\ UNCHANGED <<pc, raw, providers, receivers, food, claims, valid_provider_ids,
                   valid_receiver_ids, valid_food_ids, rejects, cleaned, db, prev,
                   query>>

\* lines 374-381 and 429-432: run_exec up to cur.execute of the INSERT
Insert(s) ==
    /\ sessions[s].pc = "insert"
    /\ LET c == get_conn
           view == View(c)
           table == TableOf(sessions[s].op)
           row == sessions[s].row
       IN  /\ conn_cache' = c
           /\ IF Locked(c)
              THEN /\ sessions' = Failed(s)
                   /\ txn' = Collect(txn, c, sessions')
              ELSE IF constraints_hold(view, table, row)
              THEN /\ sessions' =
                        [t \in Sessions |->
                            IF t = s THEN [Idle EXCEPT !.pc = "commit", !.conn = c]
                            ELSE IF t \in Rivals(s)
                            THEN [sessions[t] EXCEPT !.rival_inserted = TRUE]
                            ELSE sessions[t]]
                   /\ txn' = [owner |-> c, view |-> sql_insert(view, table, row)]
              ELSE /\ sessions' = Failed(s)
                   /\ txn' = Collect([owner |-> c, view |-> view], c, sessions')
    /\ UNCHANGED <<pc, raw, providers, receivers, food, claims, valid_provider_ids,
                   valid_receiver_ids, valid_food_ids, rejects, cleaned, db, prev,
                   query>>

\* st.number_input("New Quantity", min_value=0)
QuantityChoices == {5}

\* lines 390-401: the button Update Quantity, run_exec up to cur.execute
UpdateQuantity(s) ==
    /\ DashboardUp
    /\ sessions[s].pc = "idle"
    /\ LET c == get_conn
           view == View(c)
       IN  /\ conn_cache' = c
           /\ \E food_id \in FirstOption(IdsOf(view.Food_Listings, "Food_ID")),
                 new_qty \in QuantityChoices :
                 IF Locked(c)
                 THEN /\ sessions' = Failed(s)
                      /\ txn' = Collect(txn, c, sessions')
                 ELSE /\ sessions' = [sessions EXCEPT ![s] =
                             [Idle EXCEPT !.pc = "commit", !.conn = c]]
                      /\ txn' = [owner |-> c,
                                 view |-> sql_update_quantity(view, food_id, new_qty)]
    /\ UNCHANGED <<pc, raw, providers, receivers, food, claims, valid_provider_ids,
                   valid_receiver_ids, valid_food_ids, rejects, cleaned, db, prev,
                   query>>

\* lines 441-457: the button Delete Claim, run_exec up to cur.execute
DeleteClaim(s) ==
    /\ DashboardUp
    /\ sessions[s].pc = "idle"
    /\ LET c == get_conn
           view == View(c)
       IN  /\ conn_cache' = c
           /\ \E claim_id \in IdsOf(view.Claims, "Claim_ID") :
                 IF Locked(c)
                 THEN /\ sessions' = Failed(s)
                      /\ txn' = Collect(txn, c, sessions')
                 ELSE /\ sessions' = [sessions EXCEPT ![s] =
                             [Idle EXCEPT !.pc = "commit", !.conn = c]]
                      /\ txn' = [owner |-> c, view |-> sql_delete_claim(view, claim_id)]
    /\ UNCHANGED <<pc, raw, providers, receivers, food, claims, valid_provider_ids,
                   valid_receiver_ids, valid_food_ids, rejects, cleaned, db, prev,
                   query>>

\* line 34: conn.commit() writes what was executed on the connection, by
\* this session or by another one, to the file
Commit(s) ==
    /\ sessions[s].pc = "commit"
    /\ IF txn.owner = sessions[s].conn
       THEN db' = txn.view /\ txn' = NoTxn
       ELSE UNCHANGED <<db, txn>>
    /\ sessions' = [sessions EXCEPT ![s] = [Idle EXCEPT !.pc = "invalidate"]]
    /\ UNCHANGED <<pc, raw, providers, receivers, food, claims, valid_provider_ids,
                   valid_receiver_ids, valid_food_ids, rejects, cleaned, prev,
                   conn_cache, query>>

\* lines 36-38 and st.success
InvalidateCaches(s) ==
    /\ sessions[s].pc = "invalidate"
    /\ conn_cache' = NoConn
    /\ sessions' = [sessions EXCEPT ![s] = Idle]
    /\ txn' = Collect(txn, NoConn, sessions')
    /\ UNCHANGED <<pc, raw, providers, receivers, food, claims, valid_provider_ids,
                   valid_receiver_ids, valid_food_ids, rejects, cleaned, db, prev,
                   query>>

WriteLayer ==
    \E s \in Sessions :
        \/ AddListingNextId(s)
        \/ AddClaimNextId(s)
        \/ Insert(s)
        \/ UpdateQuantity(s)
        \/ DeleteClaim(s)
        \/ Commit(s)
        \/ InvalidateCaches(s)

NextApp == Next \/ WriteLayer

\* the dashboard with NumSessions sessions on a store the script has loaded
SpecApp == InitApp /\ [][NextApp]_vars

\* the dashboard with one session
SpecAppSeq == InitAppSeq /\ [][NextApp]_vars

-----------------------------------------------------------------------------
(* Vocabulary of the properties                                            *)

Order == <<"load", "norm_providers", "norm_receivers", "norm_food", "norm_claims",
           "na_ids", "dupe_keys", "quantity", "vocab", "food_fk", "claims_fk",
           "expiry",
           "timestamp", "backfill", "save", "unlink", "create", "insert_providers",
           "insert_receivers", "insert_food", "insert_claims", "done">>

Pos(p) == CHOOSE i \in 1..Len(Order) : Order[i] = p

\* the stage that runs at position `stage` has run
Ran(stage) ==
    \/ pc = "integrity_error"
    \/ pc # "fatal" /\ Pos(pc) > Pos(stage)

Saved == cleaned.written

ArtifactsOf ==
    [providers |-> {"providers_duplicate_provider_id"},
     receivers |-> {"receivers_duplicate_receiver_id"},
     food      |-> {"food_listings_duplicate_food_id", "food_invalid_quantity",
                    "food_bad_provider_fk", "food_bad_expiry"},
     claims    |-> {"claims_duplicate_claim_id", "claims_bad_fk",
                    "claims_bad_timestamp"}]

Ids(df) == Column(df, "idx")

KeyOf == [providers |-> "Provider_ID", receivers |-> "Receiver_ID",
          food |-> "Food_ID", claims |-> "Claim_ID"]

DupArtifact == [providers |-> "providers_duplicate_provider_id",
                receivers |-> "receivers_duplicate_receiver_id",
                food      |-> "food_listings_duplicate_food_id",
                claims    |-> "claims_duplicate_claim_id"]

\* the dataframe of a table
DF(t) ==
    CASE t = "providers" -> providers
      [] t = "receivers" -> receivers
      [] t = "food"      -> food
      [] t = "claims"    -> claims

RECURSIVE RowsIn(_, _)
RowsIn(files, names) ==
    IF names = {} THEN 0
    ELSE LET a == CHOOSE a \in names : TRUE
         IN  Len(files[a]) + RowsIn(files, names \ {a})

NoNullNoDup(df, key) ==
    /\ \A i \in 1..Len(df) : ~isna(df[i][key])
    /\ \A i, j \in 1..Len(df) : df[i][key] = df[j][key] => i = j

-----------------------------------------------------------------------------
(* C1: every Claim row of the cleaned Claims table has a Food_ID that is   *)
(* the identifier of a cleaned FoodListing and a Receiver_ID that is the   *)
(* identifier of a cleaned Receiver, whatever removed a FoodListing.       *)
C1_ClaimsResolve ==
    Saved =>
        \A i \in 1..Len(cleaned.claims) :
            /\ cleaned.claims[i].Food_ID \in Column(cleaned.food, "Food_ID")
            /\ cleaned.claims[i].Receiver_ID \in Column(cleaned.receivers, "Receiver_ID")

-----------------------------------------------------------------------------
(* C2: every FoodListing of the cleaned table has a non-null Provider_ID   *)
(* that is the identifier of a cleaned Provider; the identifier set used   *)
(* for the check is the Providers table after null and duplicate removal,  *)
(* and no Provider is removed afterwards.                                  *)
C2_FoodProviderResolves ==
    /\ Ran("food_fk") =>
          /\ valid_provider_ids = Column(providers, "Provider_ID")
          /\ \A i \in 1..Len(food) :
                ~isna(food[i].Provider_ID) /\ food[i].Provider_ID \in valid_provider_ids
    /\ Saved =>
          \A i \in 1..Len(cleaned.food) :
              /\ ~isna(cleaned.food[i].Provider_ID)
              /\ cleaned.food[i].Provider_ID \in Column(cleaned.providers, "Provider_ID")
    /\ pc = "done" =>
          fk_resolves(db.Food_Listings, "Provider_ID", db.Providers, "Provider_ID")

\* a listing with an unknown provider was rejected and another one was saved
C2_Witness ==
    /\ Saved
    /\ rejects["food_bad_provider_fk"] # <<>>
    /\ cleaned.food # <<>>

-----------------------------------------------------------------------------
(* C3: partition completeness.  For each table the rows of the input file  *)
(* are the rows of the cleaned table plus the rows of the table's reject   *)
(* artifacts: len(input) = len(cleaned) + sum(len(rejects)), and no row is *)
(* in two of them.                                                         *)
C3_PartitionComplete ==
    Saved =>
        \A t \in Tables :
            /\ Len(raw[t]) = Len(cleaned[t]) + RowsIn(rejects, ArtifactsOf[t])
            /\ \A a \in ArtifactsOf[t] :
                  /\ Ids(rejects[a]) \cap Ids(cleaned[t]) = {}
                  /\ \A b \in ArtifactsOf[t] \ {a} :
                        Ids(rejects[a]) \cap Ids(rejects[b]) = {}

-----------------------------------------------------------------------------
(* C4: a rejected row carries the label of the first rule it fails in the  *)
(* order null identifier, duplicate identifier, invalid Quantity, invalid  *)
(* date, unresolved foreign key, and is in no other artifact.  So a row    *)
(* rejected for its foreign key has passed the date rule, and a row        *)
(* rejected for its date has passed the Quantity rule.                     *)
C4_FirstRuleLabel ==
    Saved =>
        /\ \A r \in Range(rejects["food_bad_expiry"]) :
              ~isna(r.Quantity) /\ ~IsNegative(r.Quantity)
        /\ \A r \in Range(rejects["food_bad_provider_fk"]) :
              /\ ~isna(r.Quantity) /\ ~IsNegative(r.Quantity)
              /\ ~IsNaT(r.Expiry_Date)
        /\ \A r \in Range(rejects["claims_bad_fk"]) : ~IsNaT(r.Timestamp)
        /\ \A t \in Tables : \A a, b \in ArtifactsOf[t] :
              a # b => Ids(rejects[a]) \cap Ids(rejects[b]) = {}

-----------------------------------------------------------------------------
(* C5: in each of the four tables every row has a non-null identifier and  *)
(* no two rows share one, from duplicate removal on through every later    *)
(* stage, in the cleaned tables and in the store.                          *)
C5_UniqueNonNullIds ==
    /\ Ran("dupe_keys") => \A t \in Tables : NoNullNoDup(DF(t), KeyOf[t])
    /\ Saved => \A t \in Tables : NoNullNoDup(cleaned[t], KeyOf[t])
    /\ pc = "done" =>
          /\ NoNullNoDup(db.Providers, "Provider_ID")
          /\ NoNullNoDup(db.Receivers, "Receiver_ID")
          /\ NoNullNoDup(db.Food_Listings, "Food_ID")
          /\ NoNullNoDup(db.Claims, "Claim_ID")

\* duplicate claims were rejected and a claim was saved
C5_Witness ==
    /\ Saved
    /\ rejects["claims_duplicate_claim_id"] # <<>>
    /\ cleaned.claims # <<>>

-----------------------------------------------------------------------------
(* C6: after duplicate removal, of the input rows of a table that share a  *)
(* primary-key value the first in input order is in the table and every    *)
(* later one is in the table's duplicate-key artifact.                     *)
C6_FirstOccurrenceKept ==
    pc = "quantity" =>
        \A t \in Tables : \A i \in 1..Len(raw[t]) :
            LET k == ToNumeric(raw[t][i][KeyOf[t]])
                first == \A j \in 1..(i - 1) : ToNumeric(raw[t][j][KeyOf[t]]) # k
            IN  ~isna(k) =>
                    IF first
                    THEN i \in Ids(DF(t)) /\ i \notin Ids(rejects[DupArtifact[t]])
                    ELSE i \in Ids(rejects[DupArtifact[t]]) /\ i \notin Ids(DF(t))

-----------------------------------------------------------------------------
(* C7: the foreign-key stage of Claims moves a Claim row (one that         *)
(* survived null-identifier and duplicate removal) to claims_bad_fk if and *)
(* only if its Food_ID is not an identifier of the FoodListings left by    *)
(* the Food->Provider filter or its Receiver_ID is not an identifier of    *)
(* the surviving Receivers, and keeps it otherwise.  A FoodListing         *)
(* rejected for an unknown Provider_ID is not saved and no saved Claim     *)
(* references its Food_ID.                                                 *)
C7_ClaimsFkStep ==
    pc = "claims_fk" =>
        \A i \in 1..Len(claims) :
            LET dangling == \/ claims[i].Food_ID \notin Column(food, "Food_ID")
                            \/ claims[i].Receiver_ID \notin Column(receivers, "Receiver_ID")
            IN  /\ claims[i].idx \in Ids(rejects'["claims_bad_fk"]) <=> dangling
                /\ claims[i].idx \in Ids(claims') <=> ~dangling

C7_OrphanedFood ==
    \A r \in Range(rejects["food_bad_provider_fk"]) :
        /\ Ran("food_fk") => r.idx \notin Ids(food)
        /\ Ran("claims_fk") => r.Food_ID \notin Column(claims, "Food_ID")
        /\ Saved => /\ r.idx \notin Ids(cleaned.food)
                    /\ r.Food_ID \notin Column(cleaned.claims, "Food_ID")
                    /\ \A i \in 1..Len(raw.claims) :
                          /\ ToNumeric(raw.claims[i].Food_ID) = r.Food_ID
                          /\ ~isna(ToNumeric(raw.claims[i].Claim_ID))
                          /\ ~isna(ToNumeric(raw.claims[i].Receiver_ID))
                          /\ \A j \in 1..(i - 1) :
                                \/ ToNumeric(raw.claims[j].Claim_ID)
                                     # ToNumeric(raw.claims[i].Claim_ID)
                                \/ isna(ToNumeric(raw.claims[j].Food_ID))
                                \/ isna(ToNumeric(raw.claims[j].Receiver_ID))
                          => i \in Ids(rejects["claims_bad_fk"])

\* C7: the foreign-key stage of Claims rejects exactly the claims with a
\* dangling Food_ID or Receiver_ID, and a listing rejected for its provider
\* takes the claims on it along
C7_ClaimsFk == [][C7_ClaimsFkStep]_vars /\ []C7_OrphanedFood

\* a listing was rejected for its provider, a claim for its references,
\* and another claim went through the foreign-key stage
C7_Witness ==
    /\ pc = "expiry"
    /\ rejects["food_bad_provider_fk"] # <<>>
    /\ rejects["claims_bad_fk"] # <<>>
    /\ claims # <<>>

-----------------------------------------------------------------------------
(* C8: the Quantity stage moves a FoodListing (one with a non-null, unique *)
(* identifier: a row left by null-identifier and duplicate removal) to     *)
(* food_invalid_quantity exactly when its Quantity is missing or negative; *)
(* Quantity 0 is accepted.  A row so rejected is in no later artifact, is  *)
(* not saved and its Food_ID is no valid target of Claims.  Every          *)
(* FoodListing has an integer Quantity >= 0 from then on.                  *)
C8_QuantityStep ==
    pc = "quantity" =>
        \A i \in 1..Len(food) :
            LET invalid == isna(food[i].Quantity) \/ IsNegative(food[i].Quantity)
            IN  /\ food[i].idx \in Ids(rejects'["food_invalid_quantity"]) <=> invalid
                /\ food[i].idx \in Ids(food') <=> ~invalid
                /\ raw.food[food[i].idx].Quantity = "0" => ~invalid

C8_QuantityValid ==
    /\ Ran("quantity") =>
          \A i \in 1..Len(food) :
              IsIntegral(food[i].Quantity) /\ food[i].Quantity.w >= 0
    /\ Saved =>
          \A i \in 1..Len(cleaned.food) :
              IsIntegral(cleaned.food[i].Quantity) /\ cleaned.food[i].Quantity.w >= 0
    /\ \A r \in Range(rejects["food_invalid_quantity"]) :
          /\ r.idx \notin Ids(food)
          /\ r.idx \notin Ids(rejects["food_bad_provider_fk"])
          /\ r.idx \notin Ids(rejects["food_bad_expiry"])
          /\ r.idx \notin Ids(cleaned.food)
          /\ r.Food_ID \notin valid_food_ids

-----------------------------------------------------------------------------
(* C9: a saved FoodListing whose raw Location is missing (an empty cell)   *)
(* or empty or whitespace-only has the cleaned City of the Provider its    *)
(* Provider_ID names as Location, and no saved FoodListing has a           *)
(* missing-value placeholder as Location.                                  *)
IsBlank(cell) == Strip(cell) = EmptyString

Placeholders == {NA, <<"n", "a", "n">>, <<"N", "a", "n">>, <<"N", "a", "N">>}

C9_LocationBackfilled ==
    Saved =>
        \A i \in 1..Len(cleaned.food) :
            LET f == cleaned.food[i]
            IN  /\ IsBlank(raw.food[f.idx].Location) =>
                      \E j \in 1..Len(cleaned.providers) :
                          /\ cleaned.providers[j].Provider_ID = f.Provider_ID
                          /\ f.Location = cleaned.providers[j].City
                /\ f.Location \notin Placeholders

-----------------------------------------------------------------------------
(* C10: a run ends in the fatal error when a file lacks a required column, *)
(* and no step up to and including the one that raises it writes a reject  *)
(* artifact or a cleaned output or creates, deletes or modifies the store. *)
BeforeValidation ==
    {"load", "norm_providers", "norm_receivers", "norm_food", "norm_claims"}

C10_FatalStep ==
    /\ pc \in BeforeValidation => UNCHANGED <<rejects, cleaned, db>>
    /\ pc' = "fatal" => pc \in BeforeValidation \ {"load"}

C10_FatalState ==
    pc = "fatal" => rejects = NoRejects /\ cleaned = NoCleaned

\* C10: the fatal error for a missing column is raised before anything is
\* written: no artifact, no cleaned output, no change of the store
C10_FatalWritesNothing == [][C10_FatalStep]_vars /\ []C10_FatalState

\* the Claims file lacks a column and a store of an earlier run exists
C10_Witness ==
    /\ pc = "fatal"
    /\ db = PriorStore
    /\ food # <<>> /\ "Expiry_Date" \in DOMAIN food[1]
    /\ claims # <<>> /\ "cells" \in DOMAIN claims[1]

-----------------------------------------------------------------------------
(* C11: when a run has ended, by the last insert or by an error of the     *)
(* loader, the store is the complete store found at the start of the run   *)
(* (or still absent) or holds exactly the rows of the four cleaned tables  *)
(* of this run, never a part of them.                                      *)
RunEnded == pc \in {"done", "integrity_error"}

StoreOfCleaned ==
    /\ db.exists /\ db.schema
    /\ db.Providers = cleaned.providers
    /\ db.Receivers = cleaned.receivers
    /\ db.Food_Listings = cleaned.food
    /\ db.Claims = cleaned.claims

C11_StoreReplacedAtomically ==
    RunEnded => db \in {NoStore, PriorStore} \/ StoreOfCleaned

-----------------------------------------------------------------------------
(* The categorical columns                                                 *)

\* the text of a cell of a raw file after read_csv and clean_text(title=True)
CleanedCell(t, i, col) == clean_text(read_csv(raw[t])[i].cells[col], TRUE)

LowerCase(s) == [i \in 1..Len(s) |-> ToLower(s[i])]

VocabularyMaps ==
    [Provider_Type |-> PROVIDER_TYPE_MAP, Food_Type |-> FOOD_TYPE_MAP,
     Meal_Type |-> MEAL_TYPE_MAP, Status |-> STATUS_MAP]

FoodVocabularyColumns == {"Provider_Type", "Food_Type", "Meal_Type"}

\* the rows persisted at the end of a run: the cleaned files and the store
PersistedFood == cleaned.food \o db.Food_Listings
PersistedClaims == cleaned.claims \o db.Claims

\* no row of the two files was left out of the cleaned files or the store
AllRowsPersisted ==
    /\ Ids(cleaned.food) = 1..Len(raw.food)
    /\ Ids(cleaned.claims) = 1..Len(raw.claims)
    /\ Ids(db.Food_Listings) = 1..Len(raw.food)
    /\ Ids(db.Claims) = 1..Len(raw.claims)
    /\ rejects = NoRejects

\* C12: canonicalization is a lookup with identity default: a persisted
\* categorical value is the mapped spelling when the title-cased cleaned raw
\* value is a key of the column's map and that cleaned value itself
\* otherwise, no row is rejected for its categorical values, and a raw Status
\* "Canceled" in any letter case is persisted as "Cancelled"
C12_CanonicalizationLookup ==
    pc = "done" =>
        /\ AllRowsPersisted
        /\ \A i \in 1..Len(PersistedFood) : \A col \in FoodVocabularyColumns :
              LET f == PersistedFood[i]
                  v == CleanedCell("food", f.idx, col)
                  map == VocabularyMaps[col]
              IN  f[col] = IF v \in DOMAIN map THEN map[v] ELSE v
        /\ \A i \in 1..Len(PersistedClaims) :
              LET c == PersistedClaims[i]
                  v == CleanedCell("claims", c.idx, "Status")
              IN  /\ c.Status = IF v \in DOMAIN STATUS_MAP THEN STATUS_MAP[v] ELSE v
                  /\ LowerCase(raw.claims[c.idx].Status) = <<"c", "a", "n", "c", "e", "l", "e", "d">>
                         => c.Status = <<"C", "a", "n", "c", "e", "l", "l", "e", "d">>

\* "cAnCeLeD" was stored as "Cancelled"
C12_Witness ==
    /\ pc = "done"
    /\ raw.claims[1].Status = <<"c", "A", "n", "C", "e", "L", "e", "D">>
    /\ db.Claims[1].idx = 1 /\ db.Claims[1].Status = <<"C", "a", "n", "c", "e", "l", "l", "e", "d">>

-----------------------------------------------------------------------------
(* C13: every persisted Status, Food_Type and Meal_Type is a value of the  *)
(* controlled vocabulary of its column.                                    *)
Vocabulary ==
    [Status    |-> {<<"P", "e", "n", "d", "i", "n", "g">>,
                    <<"C", "o", "m", "p", "l", "e", "t", "e", "d">>,
                    <<"C", "a", "n", "c", "e", "l", "l", "e", "d">>},
     Food_Type |-> {<<"V", "e", "g", "e", "t", "a", "r", "i", "a", "n">>,
                    <<"N", "o", "n", "-", "V", "e", "g", "e", "t", "a", "r", "i", "a", "n">>,
                    <<"V", "e", "g", "a", "n">>},
     Meal_Type |-> {<<"B", "r", "e", "a", "k", "f", "a", "s", "t">>,
                    <<"L", "u", "n", "c", "h">>,
                    <<"D", "i", "n", "n", "e", "r">>,
                    <<"S", "n", "a", "c", "k", "s">>}]

C13_VocabularyClosed ==
    Saved =>
        /\ \A i \in 1..Len(PersistedClaims) :
              PersistedClaims[i].Status \in Vocabulary.Status
        /\ \A i \in 1..Len(PersistedFood) :
              /\ PersistedFood[i].Food_Type \in Vocabulary.Food_Type
              /\ PersistedFood[i].Meal_Type \in Vocabulary.Meal_Type

\* C13, amended: a persisted Status, Food_Type or Meal_Type is a value of the
\* controlled vocabulary whenever the title-cased cleaned raw value is a key
\* of the column's map; a value that is not a key (the "Nan" of an empty
\* cell too) is persisted as it is
C13_VocabularyClosedOnKeys ==
    Saved =>
        /\ \A i \in 1..Len(PersistedClaims) :
              LET c == PersistedClaims[i]
                  v == CleanedCell("claims", c.idx, "Status")
              IN  IF v \in DOMAIN STATUS_MAP
                  THEN c.Status \in Vocabulary.Status
                  ELSE c.Status = v
        /\ \A i \in 1..Len(PersistedFood) : \A col \in {"Food_Type", "Meal_Type"} :
              LET f == PersistedFood[i]
                  v == CleanedCell("food", f.idx, col)
              IN  IF v \in DOMAIN VocabularyMaps[col]
                  THEN f[col] \in Vocabulary[col]
                  ELSE f[col] = v

\* a claim with an empty Status cell was stored with Status "Nan"
C13_Witness ==
    /\ pc = "done"
    /\ raw.claims[1].Status = EmptyString
    /\ db.Claims[1].idx = 1 /\ db.Claims[1].Status = <<"N", "a", "n">>

-----------------------------------------------------------------------------
(* C14: canonicalization is a fixed point for each of the four maps:       *)
(* applying it to its own result gives that result again, for keys and for *)
(* values that are not keys.                                               *)
FixedPoint(map, v) == get(map, get(map, v)) = get(map, v)

\* the values the property ranges over: the keys and values of the map, the raw
\* cells, the cells before and after the map was applied
ValuesOf(col) ==
    LET map == VocabularyMaps[col]
        t == IF col = "Status" THEN "claims" ELSE "food"
        frame == IF col = "Status" THEN claims ELSE food
    IN  DOMAIN map \cup {map[k] : k \in DOMAIN map}
        \cup Column(raw[t], col)
        \cup (IF Ran("norm_claims") THEN Column(frame, col) ELSE {})

\* C14: for each of the four maps and every value, a key or not, the map
\* applied twice gives what the map applied once gives; the cells of a
\* column the map was applied to are left as they are by the map
C14_CanonicalFixedPoint ==
    \A col \in DOMAIN VocabularyMaps :
        /\ \A v \in ValuesOf(col) : FixedPoint(VocabularyMaps[col], v)
        /\ Ran("vocab") =>
              \A v \in Column(IF col = "Status" THEN claims ELSE food, col) :
                  get(VocabularyMaps[col], v) = v

\* the map has just turned "Canceled" into "Cancelled", next to a Status kept
C14_Witness ==
    /\ pc = "food_fk"
    /\ raw.claims[1].Status = <<"C", "a", "n", "c", "e", "l", "e", "d">>
    /\ claims[1].Status = <<"C", "a", "n", "c", "e", "l", "l", "e", "d">>
    /\ claims[2].Status = <<"P", "e", "n", "d", "i", "n", "g">>

-----------------------------------------------------------------------------
(* C15: a run on the raw input of the run before it, starting from the     *)
(* output directory and the store that run left, ends as that run ended    *)
(* and leaves the same four cleaned files and the same store.              *)

\* this run and the one before it read the same four files; a run that ended
\* for a missing column read a file with another header
SameInputAsBefore ==
    /\ prev.n > 0
    /\ prev.raw = raw
    /\ prev.pc # "fatal"

\* C15: idempotence: the second of two runs on the same raw input leaves the
\* cleaned outputs and the store the first one left, whatever the directory
\* and the store held before
C15_Idempotent ==
    RunEnded /\ SameInputAsBefore =>
        /\ pc = prev.pc
        /\ cleaned = prev.cleaned
        /\ db = prev.db

\* the second run on a dataset with a rejected listing has ended
C15_Witness ==
    /\ pc = "done"
    /\ SameInputAsBefore
    /\ raw.food[1].Quantity = "-5"
    /\ Len(db.Food_Listings) = 1
    /\ rejects["food_invalid_quantity"] # <<>>

-----------------------------------------------------------------------------
(* C20: whatever runs came before on the same output directory, the        *)
(* artifact of a rule holds, once the stage of the rule has run, exactly    *)
(* the rows this run rejected under the rule, and no file when it rejected  *)
(* none.                                                                    *)
C20_Step ==
    /\ pc = "dupe_keys" =>
          \A t \in Tables : rejects'[DupArtifact[t]] = dupe_rows(DF(t), KeyOf[t])
    /\ pc = "quantity" =>
          rejects'["food_invalid_quantity"] = BoolIndex(food, bad_qty_mask(food))
    /\ pc = "food_fk" =>
          rejects'["food_bad_provider_fk"] =
              bad_food_fk(food, Column(providers, "Provider_ID"))
    /\ pc = "claims_fk" =>
          rejects'["claims_bad_fk"] =
              BoolIndex(claims,
                        bad_claims_fk_mask(claims, valid_food_ids, valid_receiver_ids))
    /\ pc = "expiry" =>
          rejects'["food_bad_expiry"] =
              BoolIndex(food, [i \in 1..Len(food) |-> IsNaT(food[i].Expiry_Date)])
    /\ pc = "timestamp" =>
          rejects'["claims_bad_timestamp"] =
              BoolIndex(claims, [i \in 1..Len(claims) |-> IsNaT(claims[i].Timestamp)])

C20_ArtifactsOfLatestRun == [][C20_Step]_vars

-----------------------------------------------------------------------------
(* The write layer: vocabulary of the properties                           *)

KeyColumn == [Food_Listings |-> "Food_ID", Claims |-> "Claim_ID"]

Conns == 1..(Cardinality(Sessions) + 2)

\* the tables as connection c sees them after the step
ViewAfter(c) == IF txn'.owner = c THEN txn'.view ELSE db'

\* the step leaves the file and what every connection sees as they are
StoreUnchanged == db' = db /\ \A c \in Conns : ViewAfter(c) = View(c)

\* the tables of the file, and those an open transaction shows
Stores == {db} \cup (IF txn.owner # NoConn THEN {txn.view} ELSE {})

UniqueIds(store) ==
    /\ pk_unique(store.Providers, "Provider_ID")
    /\ pk_unique(store.Receivers, "Receiver_ID")
    /\ pk_unique(store.Food_Listings, "Food_ID")
    /\ pk_unique(store.Claims, "Claim_ID")

ForeignKeysResolve(store) ==
    /\ \A i \in 1..Len(store.Food_Listings) :
          \E j \in 1..Len(store.Providers) :
              store.Providers[j].Provider_ID = store.Food_Listings[i].Provider_ID
    /\ \A i \in 1..Len(store.Claims) :
          /\ \E j \in 1..Len(store.Food_Listings) :
                store.Food_Listings[j].Food_ID = store.Claims[i].Food_ID
          /\ \E j \in 1..Len(store.Receivers) :
                store.Receivers[j].Receiver_ID = store.Claims[i].Receiver_ID

\* session s executes its INSERT in this step
Inserts(s) == sessions[s].pc = "insert" /\ sessions'[s].pc # "insert"

\* the INSERT of session s, executed on the view `before`, added its row and
\* nothing else
AddedOneRow(s, before, after) ==
    LET table == TableOf(sessions[s].op)
    IN  /\ after[table] = before[table] \o <<sessions[s].row>>
        /\ sessions[s].row[KeyColumn[table]] = Num(sessions[s].id, 0)
        /\ \A other \in DOMAIN before : other # table => after[other] = before[other]

-----------------------------------------------------------------------------
(* C16: with one session, Add Listing and Add Claim give the new row the   *)
(* largest identifier of the table plus one, or 1 when the table is empty; *)
(* identifiers stay unique under Add Listing, Add Claim, Update Quantity   *)
(* and Delete Claim, and each successful insert adds exactly one row, with *)
(* an identifier greater than every identifier present before.             *)
C16_NextIdAndUnique ==
    /\ \A store \in Stores : UniqueIds(store)
    /\ \A s \in Sessions :
          sessions[s].pc = "insert" =>
              LET table == TableOf(sessions[s].op)
                  ids == IdsOf(View(conn_cache)[table], KeyColumn[table])
              IN  /\ ids = {} => sessions[s].id = 1
                  /\ ids # {} => /\ sessions[s].id - 1 \in ids
                                 /\ \A id \in ids : id < sessions[s].id

C16_InsertStep ==
    \A s \in Sessions :
        Inserts(s) /\ sessions'[s].pc = "commit" =>
            LET c == get_conn
                table == TableOf(sessions[s].op)
            IN  /\ AddedOneRow(s, View(c), ViewAfter(c))
                /\ \A id \in IdsOf(View(c)[table], KeyColumn[table]) :
                      id < sessions[s].id

-----------------------------------------------------------------------------
(* C17: an INSERT whose identifier is in the table, or whose reference     *)
(* matches no row, is rejected; a rejected operation leaves the file and   *)
(* what every connection sees unchanged; every foreign key of the store    *)
(* resolves after any sequence of steps of the write layer.                *)
C17_Step ==
    \A s \in Sessions :
        /\ Inserts(s) =>
              LET view == View(get_conn)
                  table == TableOf(sessions[s].op)
                  row == sessions[s].row
                  violates ==
                      \/ sessions[s].id \in IdsOf(view[table], KeyColumn[table])
                      \/ ~ForeignKeysResolve([view EXCEPT ![table] = @ \o <<row>>])
              IN  violates => sessions'[s].result = "error"
        /\ sessions'[s] # sessions[s] /\ sessions'[s].result = "error" => StoreUnchanged

C17_ForeignKeysKept ==
    pc = "done" => \A store \in Stores : ForeignKeysResolve(store)

C17_ViolationsRejected == [][C17_Step]_vars /\ []C17_ForeignKeysKept

\* an insert was rejected for its identifier: the row with it, inserted by
\* another session, is in the file
C17_Witness ==
    /\ txn.owner # NoConn /\ txn.view = db
    /\ Len(db.Claims) = Len(cleaned.claims) + 1
    /\ \E s \in Sessions : sessions[s].result = "error"

-----------------------------------------------------------------------------
(* C19: under every interleaving of the steps of the sessions the          *)
(* identifiers of each table are unique and every foreign key resolves;    *)
(* of two inserts that computed the same identifier the one executed       *)
(* second is rejected with the store unchanged; a successful insert adds   *)
(* its row and leaves every other row as it was.                           *)
C19_Consistent ==
    \A store \in Stores : UniqueIds(store) /\ (pc = "done" => ForeignKeysResolve(store))

C19_NoOverwrite ==
    \A s \in Sessions :
        Inserts(s) =>
            IF sessions'[s].pc = "commit"
            THEN AddedOneRow(s, View(get_conn), ViewAfter(get_conn))
            ELSE sessions'[s].result = "error" /\ StoreUnchanged

C19_RaceStep ==
    \A s \in Sessions :
        Inserts(s) /\ sessions[s].rival_inserted =>
            sessions'[s].result = "error" /\ StoreUnchanged

C19_AmendedRaceStep ==
    \A s \in Sessions :
        Inserts(s) /\ sessions[s].rival_inserted =>
            LET table == TableOf(sessions[s].op)
                present == sessions[s].id \in
                               IdsOf(View(get_conn)[table], KeyColumn[table])
            IN  IF present \/ Locked(get_conn)
                THEN sessions'[s].result = "error" /\ StoreUnchanged
                ELSE table = "Claims" /\ sessions'[s].pc = "commit"

-----------------------------------------------------------------------------
(* The read layer of the dashboard: the queries of run_df                  *)

\* the columns of the CREATE TABLE statements
Schema ==
    [Providers |-> {"Provider_ID", "Name", "Type", "Address", "City", "Contact"},
     Receivers |-> {"Receiver_ID", "Name", "Type", "City", "Contact"},
     Food_Listings |-> {"Food_ID", "Food_Name", "Quantity", "Expiry_Date", "Provider_ID",
                        "Provider_Type", "Location", "Food_Type", "Meal_Type"},
     Claims |-> {"Claim_ID", "Food_ID", "Receiver_ID", "Status", "Timestamp"}]

\* the choice "All" of a filter
All == <<"A", "l", "l">>

\* the columns a statement names in one table
Of(table, columns) == {<<table, column>> : column \in columns}

\* a statement: the columns it names, the named parameters of its text and
\* the keys of the dictionary passed with it
Sql(columns, named, supplied) ==
    [columns |-> columns, named |-> named, supplied |-> supplied]

\* the statements of the script in the order of their execution; list_values
\* runs its five statements when its cache is empty
Script ==
    <<"k1", "k2", "k3", "k4", "cities", "providers", "food_types", "meal_types",
      "receivers", "Q1", "Q1b", "Q2", "Q3", "Q4", "listings", "Q5", "Q6", "Q7", "Q8",
      "Q9", "Q10", "Q11", "Q12", "Q13", "Q14", "Q15", "update_options", "claim_food",
      "claim_receivers", "delete_options">>

\* the statement of each call of run_df, for the filters chosen
Statement(name, city, filt_city, filt_food_type, filt_meal_type) ==
    CASE name = "k1" -> Sql(Of("Providers", {}), {}, {})
      [] name = "k2" -> Sql(Of("Receivers", {}), {}, {})
      [] name = "k3" -> Sql(Of("Food_Listings", {}), {}, {})
      [] name = "k4" -> Sql(Of("Claims", {}), {}, {})
      [] name = "cities" ->
            Sql(Of("Providers", {"City"}) \cup Of("Food_Listings", {"Location"}), {}, {})
      [] name = "providers" -> Sql(Of("Providers", {"Provider_ID", "Name"}), {}, {})
      [] name = "food_types" -> Sql(Of("Food_Listings", {"Food_Type"}), {}, {})
      [] name = "meal_types" -> Sql(Of("Food_Listings", {"Meal_Type"}), {}, {})
      [] name = "receivers" -> Sql(Of("Receivers", {"Receiver_ID", "Name"}), {}, {})
      [] name = "Q1" -> Sql(Of("Providers", {"City"}), {}, {})
      [] name = "Q1b" -> Sql(Of("Receivers", {"City"}), {}, {})
      [] name = "Q2" ->
            Sql(Of("Providers", {"Name", "Type", "Address", "Contact", "City"}),
                {"city"}, IF city # All THEN {"city"} ELSE {})
      [] name = "Q3" ->
            Sql(Of("Providers", {"Name", "Provider_Type", "Address", "Contact", "City"}),
                {"city"}, {"city"})
      [] name = "Q4" ->
            Sql(Of("Claims", {"Receiver_ID"}) \cup Of("Receivers", {"Receiver_ID", "Name"}),
                {}, {})
      [] name = "listings" ->
            LET params == (IF filt_city # All THEN {"city"} ELSE {})
                          \cup (IF filt_food_type # All THEN {"ft"} ELSE {})
                          \cup (IF filt_meal_type # All THEN {"mt"} ELSE {})
            IN  Sql(Of("Food_Listings",
                       {"Food_ID", "Food_Name", "Quantity", "Expiry_Date", "Provider_ID",
                        "Provider_Type", "Location", "Food_Type", "Meal_Type"}),
                    params, params)
      [] name = "Q5" -> Sql(Of("Food_Listings", {"Quantity"}), {}, {})
      [] name = "Q6" -> Sql(Of("Food_Listings", {"Location"}), {}, {})
      [] name = "Q7" -> Sql(Of("Food_Listings", {"Food_Type"}), {}, {})
      [] name = "Q8" ->
            Sql(Of("Food_Listings", {"Food_ID", "Food_Name"})
                \cup Of("Claims", {"Claim_ID", "Food_ID"}), {}, {})
      [] name = "Q9" ->
            Sql(Of("Providers", {"Provider_ID", "Name"})
                \cup Of("Claims", {"Food_ID", "Status"})
                \cup Of("Food_Listings", {"Food_ID", "Provider_ID"}), {}, {})
      [] name = "Q10" -> Sql(Of("Claims", {"Status"}), {}, {})
      [] name = "Q11" ->
            Sql(Of("Claims", {"Claim_ID", "Receiver_ID", "Food_ID"})
                \cup Of("Food_Listings", {"Quantity", "Food_ID"})
                \cup Of("Receivers", {"Receiver_ID", "Name"}), {}, {})
      [] name = "Q12" ->
            Sql(Of("Food_Listings", {"Meal_Type", "Food_ID"}) \cup Of("Claims", {"Food_ID"}),
                {}, {})
      [] name = "Q13" ->
            Sql(Of("Providers", {"Provider_ID", "Name"})
                \cup Of("Food_Listings", {"Quantity", "Provider_ID"}), {}, {})
      [] name = "Q14" ->
            Sql(Of("Food_Listings",
                   {"Food_ID", "Food_Name", "Quantity", "Expiry_Date", "Location"}), {}, {})
      [] name = "Q15" -> Sql(Of("Claims", {"Timestamp"}), {}, {})
      [] name = "update_options" ->
            Sql(Of("Food_Listings", {"Food_ID", "Food_Name", "Quantity"}), {}, {})
      [] name = "claim_food" ->
            Sql(Of("Food_Listings", {"Food_ID", "Food_Name", "Expiry_Date"}), {}, {})
      [] name = "claim_receivers" -> Sql(Of("Receivers", {"Receiver_ID", "Name"}), {}, {})
      [] name = "delete_options" ->
            Sql(Of("Claims", {"Claim_ID", "Food_ID", "Receiver_ID", "Status", "Timestamp"}),
                {}, {})


\* pd.read_sql_query: "no such table", "no such column" and "You did not
\* supply a value for binding" raise
Executes(sql, store) ==
    /\ store.exists /\ store.schema
    /\ \A ref \in sql.columns : ref[1] \in DOMAIN Schema /\ ref[2] \in Schema[ref[1]]
    /\ sql.named \subseteq sql.supplied

\* the options of a filter: "All" and the values of the store
Options(values) == {All} \cup values

\* the statement the script executes next: the script stops at the statement
\* that raised and starts again from the top on the next interaction
NextStatement ==
    LET at == IF query.name = "none" THEN 0
              ELSE CHOOSE i \in 1..Len(Script) : Script[i] = query.name
    IN  IF query.ok /\ at < Len(Script) THEN Script[at + 1] ELSE Script[1]

\* run_df(sql, params) of the script
RunQuery ==
    /\ DashboardUp
    /\ \A s \in Sessions : sessions[s].pc = "idle"
    /\ txn = NoTxn
    /\ LET cities == Column(db.Providers, "City") \cup Column(db.Food_Listings, "Location")
           food_types == Column(db.Food_Listings, "Food_Type")
           meal_types == Column(db.Food_Listings, "Meal_Type")
       IN  \E city \in Options(cities), filt_city \in Options(cities),
              filt_food_type \in Options(food_types),
              filt_meal_type \in Options(meal_types) :
              query' = [name |-> NextStatement,
                        ok |-> Executes(Statement(NextStatement, city, filt_city,
                                                  filt_food_type, filt_meal_type), db)]
    /\ UNCHANGED <<pc, raw, providers, receivers, food, claims, valid_provider_ids,
                   valid_receiver_ids, valid_food_ids, rejects, cleaned, db, prev,
                   conn_cache, txn, sessions>>

NextDashboard == Next \/ RunQuery

\* the pipeline, then the dashboard rendering its tabs
SpecDashboard == InitApp /\ [][NextDashboard]_vars

-----------------------------------------------------------------------------
(* C18: no statement of the dashboard fails against the store the pipeline *)
(* loaded: each names only columns of the schema and is passed a value for *)
(* every named parameter, whatever the filters chosen, "All" included.     *)
C18_QueriesExecute == query.ok

====
